---------------------------- MODULE Spec2Model ----------------------------
(***************************************************************************)
(* A model of bombardier's HTTP client layer, src/clients.go: the two      *)
(* implementations of the `client` interface, fasthttpClient ("fast") and  *)
(* httpClient ("std"), their constructors, and do().                       *)
(*                                                                         *)
(* Strings that the code takes apart (the proxy URL) are sequences of      *)
(* tokens; "socks5" occurs in such a string exactly when one of its tokens *)
(* is "socks5".  Header keys are strings, and the canonical MIME form of a *)
(* key is computed by CanonicalKey.  Time is a clock `now` in microseconds *)
(* that the blocking transport steps advance.                              *)
(***************************************************************************)
EXTENDS Integers, Sequences, FiniteSets, TLC

\* ------------------------------------------------------------------ bounds
MaxCalls == 2     \* do() calls started in one behaviour
MaxTime == 1      \* the clock stops advancing here
MaxBytes == 1     \* most bytes a response takes on the wire
MaxHeaders == 2   \* longest header list

Workers == {"w1", "w2"}

\* ------------------------------------------------------------ the inputs
NoErr == "nil"
Statuses == {200, 503}

\* The target URL, valid by the caller's contract (clients.go:54-58).
UrlHost == "example.test"

HeaderKeys == {"Host", "host", "Accept"}
HeaderValues == {"a.test", "b.test"}
Header == [key : HeaderKeys, value : HeaderValues]

RECURSIVE SeqsUpTo(_, _)
SeqsUpTo(S, n) ==
    IF n = 0 THEN {<<>>}
    ELSE LET shorter == SeqsUpTo(S, n - 1)
         IN  shorter \cup {Append(s, x) : s \in {t \in shorter : Len(t) = n - 1}, x \in S}

HeaderLists == SeqsUpTo(Header, MaxHeaders)

\* "", "socks5://px", "http://px", "https://px", "http://socks5px"
ProxyUrls ==
    { <<>>,
      <<"socks5", "://", "px">>,
      <<"http", "://", "px">>,
      <<"https", "://", "px">>,
      <<"http", "://", "socks5", "px">> }

\* body *string: nil, or a pointer to a string (a sequence of bytes here)
NilBody == [set |-> FALSE, val |-> <<>>]
FixedBodies == { [set |-> TRUE, val |-> <<"{", "}">>] }

ClientOpts ==
    [ variant : {"fast", "std"},
      timeout : {0, 1},
      disableKeepAlives : BOOLEAN,
      headers : HeaderLists,
      proxyUrl : ProxyUrls,
      body : {NilBody} \cup FixedBodies ]

\* ------------------------------------------------------- string helpers
\* strings.Contains(s, "socks5")
ContainsSocks5(s) == \E i \in 1..Len(s) : s[i] = "socks5"

\* The index of the first occurrence of the two-token string <<a, b>> in s, or 0.
IndexOf2(s, a, b) ==
    LET hits == {i \in 1..(Len(s) - 1) : s[i] = a /\ s[i + 1] = b}
    IN  IF hits = {} THEN 0 ELSE CHOOSE i \in hits : \A j \in hits : i <= j

\* strings.Replace(s, scheme + "://", "", 1)
StripPrefixOnce(s, scheme) ==
    LET i == IndexOf2(s, scheme, "://")
    IN  IF i = 0 THEN s ELSE SubSeq(s, 1, i - 1) \o SubSeq(s, i + 2, Len(s))

\* url.URL.Parse(proxyUrl).Scheme: the token before the first "://"
UrlScheme(s) == IF Len(s) >= 2 /\ s[2] = "://" THEN s[1] ELSE ""

\* The canonical form of a header key (first letter and letters after a hyphen
\* upper case, the rest lower case), on the keys of HeaderKeys.
CanonicalKey(k) == IF k \in {"Host", "host"} THEN "Host" ELSE k

\* ------------------------------------------------------- header adapters
\* fasthttp.RequestHeader: the host is kept apart from the other headers;
\* Set normalizes the key, and a "Host" key sets the host.
EmptyRequestHeader == [host |-> "", other |-> <<>>]

RequestHeaderSet(h, key, value) ==
    IF CanonicalKey(key) = "Host"
    THEN [h EXCEPT !.host = value]
    ELSE [h EXCEPT !.other =
            SelectSeq(h.other, LAMBDA x : x.key # CanonicalKey(key))
              \o <<[key |-> CanonicalKey(key), value |-> value]>>]

RECURSIVE SetAll(_, _)
SetAll(res, h) ==
    IF h = <<>> THEN res
    ELSE SetAll(RequestHeaderSet(res, Head(h).key, Head(h).value), Tail(h))

\* headersToFastHTTPHeaders: nil for the empty list
headersToFastHTTPHeaders(h) ==
    IF Len(h) = 0 THEN [nil |-> TRUE, hdr |-> EmptyRequestHeader]
    ELSE [nil |-> FALSE, hdr |-> SetAll(EmptyRequestHeader, h)]

\* http.Header: a map from the key AS WRITTEN to its value; the last
\* assignment to a key wins.
RECURSIVE AssignAll(_, _)
AssignAll(m, h) ==
    IF h = <<>> THEN m
    ELSE AssignAll([k \in DOMAIN m \cup {Head(h).key} |->
                       IF k = Head(h).key THEN Head(h).value ELSE m[k]],
                   Tail(h))

headersToHTTPHeaders(h) == AssignAll(<<>>, h)

\* http.Header.Get(key): the value stored under the canonical form of key
HeaderGet(m, key) ==
    IF CanonicalKey(key) \in DOMAIN m THEN m[CanonicalKey(key)] ELSE ""

\* ------------------------------------------------------------ constructors
\* Fault injection for FastDial: the direct dial without the counting wrapper.
MutDialUncounted(proxyUrl) == [path |-> "direct", counting |-> FALSE, addr |-> <<>>]

\* newFastHTTPClient's choice of dial function
FastDial(proxyUrl) ==
    IF proxyUrl # <<>>
    THEN IF ContainsSocks5(proxyUrl)
         THEN [path |-> "socks5", counting |-> FALSE,
               addr |-> StripPrefixOnce(proxyUrl, "socks5")]
         ELSE [path |-> "httpproxy", counting |-> FALSE,
               addr |-> StripPrefixOnce(StripPrefixOnce(proxyUrl, "https"), "http")]
    ELSE [path |-> "direct", counting |-> TRUE, addr |-> <<>>]

\* newHTTPClient's transport: tr.Proxy = http.ProxyURL(parsed proxy URL), and
\* tr.DialContext is the counting dialer whatever the proxy.  The transport
\* picks SOCKS5 for a proxy URL of scheme "socks5" and treats every other
\* proxy URL as an HTTP proxy.
HttpDial(proxyUrl) ==
    IF proxyUrl # <<>>
    THEN IF UrlScheme(proxyUrl) = "socks5"
         THEN [path |-> "socks5", counting |-> TRUE, addr |-> proxyUrl]
         ELSE [path |-> "httpproxy", counting |-> TRUE, addr |-> proxyUrl]
    ELSE [path |-> "direct", counting |-> TRUE, addr |-> <<>>]

\* fasthttp.HostClient has no keep-alive switch among the fields set; it puts
\* every connection that is still usable back into its pool.
newFastHTTPClient(o) ==
    [ variant |-> "fast",
      host |-> UrlHost,
      dial |-> FastDial(o.proxyUrl),
      timeout |-> o.timeout,
      keepAlive |-> TRUE,
      fastHeaders |-> headersToFastHTTPHeaders(o.headers),
      httpHeaders |-> <<>>,
      body |-> o.body ]

newHTTPClient(o) ==
    [ variant |-> "std",
      host |-> UrlHost,
      dial |-> HttpDial(o.proxyUrl),
      timeout |-> o.timeout,
      keepAlive |-> ~o.disableKeepAlives,
      fastHeaders |-> headersToFastHTTPHeaders(<<>>),
      httpHeaders |-> headersToHTTPHeaders(o.headers),
      body |-> o.body ]

NewClient(o) == IF o.variant = "fast" THEN newFastHTTPClient(o) ELSE newHTTPClient(o)

\* ------------------------------------------------------------------ state
VARIABLES
    opts,          \* the clientOpts the client was constructed from
    pc,            \* where each worker's do() call is
    req,           \* the request each call has built
    resp,          \* what the transport gave each call
    drain,         \* what draining and closing the response body gave
    res,           \* what each call returned: (code, usTaken, err)
    start,         \* each call's `start`
    now,           \* the clock, in microseconds
    hold,          \* whether a call holds a pooled request/response pair
    conn,          \* the connection a call's request used
    idle,          \* idle connections in the transport's pool
    bytesRead,     \* *opts.bytesRead
    bytesWritten,  \* *opts.bytesWritten
    nStreams,      \* streams the body factory has produced
    closed,        \* the streams that were consumed or closed
    calls,         \* do() calls started
    elapsed,       \* history: time that passed while each call was in the transport
    sent,          \* history: whether a call handed its request to the transport
    fcalls,        \* history: body-factory invocations of each call
    wireRead,      \* history: bytes that came in over all connections
    wireWritten    \* history: bytes that went out over all connections

vars == << opts, pc, req, resp, drain, res, start, now, hold, conn, idle, bytesRead,
           bytesWritten, nStreams, closed, calls, elapsed, sent, fcalls,
           wireRead, wireWritten >>

\* the client handle: immutable after construction
client == NewClient(opts)

NoRequest == [host |-> "", body |-> NilBody, stream |-> 0, contentLength |-> 0]
NoResponse == [got |-> FALSE, status |-> 0, err |-> NoErr]
NoDrain == [drained |-> FALSE, closed |-> FALSE, berr |-> NoErr, cerr |-> NoErr]
NoResult == [code |-> 0, us |-> 0, err |-> NoErr]

InitWith(configs) ==
    /\ opts \in configs
    /\ pc = [w \in Workers |-> "idle"]
    /\ req = [w \in Workers |-> NoRequest]
    /\ resp = [w \in Workers |-> NoResponse]
    /\ drain = [w \in Workers |-> NoDrain]
    /\ res = [w \in Workers |-> NoResult]
    /\ start = [w \in Workers |-> 0]
    /\ now = 0
    /\ hold = [w \in Workers |-> FALSE]
    /\ conn = [w \in Workers |-> "none"]
    /\ idle = 0
    /\ bytesRead = 0
    /\ bytesWritten = 0
    /\ nStreams = 0
    /\ closed = {}
    /\ calls = 0
    /\ elapsed = [w \in Workers |-> 0]
    /\ sent = [w \in Workers |-> FALSE]
    /\ fcalls = [w \in Workers |-> 0]
    /\ wireRead = 0
    /\ wireWritten = 0

\* ------------------------------------------------------ the transport, I
\* c.client.Do takes the request: the call is in the transport from here on.
\* The transport gives the request an idle connection of its pool when it has
\* one, and dials otherwise.
Submit(w) ==
    /\ pc' = [pc EXCEPT ![w] = "inflight"]
    /\ start' = [start EXCEPT ![w] = now]
    /\ sent' = [sent EXCEPT ![w] = TRUE]
    /\ conn' = [conn EXCEPT ![w] = IF idle > 0 THEN "reused" ELSE "dialing"]
    /\ idle' = IF idle > 0 THEN idle - 1 ELSE idle

\* ------------------------------------------------- fasthttpClient.do, start
\* c.headers.CopyTo(&req.Header) when c.headers is not nil, then SetHost(c.host)
\* when the request has no host yet.
FastRequestHost ==
    LET copied == IF client.fastHeaders.nil THEN "" ELSE client.fastHeaders.hdr.host
    IN  IF copied = "" THEN client.host ELSE copied

\* Fault injection for FastFactoryFailure: the failure reported as a transport error.
MutFactoryFailureAsTransport(bserr) == [code |-> -1, us |-> 0, err |-> bserr]

\* return 0, 0, bserr
FastFactoryFailure(bserr) == [code |-> 0, us |-> 0, err |-> bserr]

\* From AcquireRequest to c.client.Do(req, resp): the request is built, the body
\* is attached and the request is submitted; or the body factory fails and the
\* call returns at once.
FastBegin(w) ==
    /\ client.variant = "fast"
    /\ pc[w] = "idle"
    /\ calls < MaxCalls
    /\ calls' = calls + 1
    /\ hold' = [hold EXCEPT ![w] = TRUE]
    /\ IF client.body.set
       THEN /\ req' = [req EXCEPT ![w] = [host |-> FastRequestHost, body |-> client.body,
                                          stream |-> 0,
                                          contentLength |-> Len(client.body.val)]]
            /\ Submit(w)
            /\ UNCHANGED <<res, nStreams, fcalls>>
       ELSE /\ fcalls' = [fcalls EXCEPT ![w] = @ + 1]
            /\ \/ /\ res' = [res EXCEPT ![w] = FastFactoryFailure("bodyerr")]
                  /\ req' = [req EXCEPT ![w] = [host |-> FastRequestHost, body |-> NilBody,
                                                stream |-> 0, contentLength |-> 0]]
                  /\ pc' = [pc EXCEPT ![w] = "done"]
                  /\ UNCHANGED <<start, sent, conn, idle, nStreams>>
               \/ /\ nStreams' = nStreams + 1
                  /\ req' = [req EXCEPT ![w] = [host |-> FastRequestHost, body |-> NilBody,
                                                stream |-> nStreams + 1,
                                                contentLength |-> -1]]
                  /\ Submit(w)
                  /\ UNCHANGED res
    /\ UNCHANGED <<opts, resp, drain, now, bytesRead, bytesWritten, closed, elapsed,
                   wireRead, wireWritten>>

\* ----------------------------------------------------- httpClient.do, start
\* req.Host is set from the "Host" header when Get finds one; the transport
\* uses req.Host when it is set, and the URL's host otherwise.
HttpRequestHost ==
    LET host == HeaderGet(client.httpHeaders, "Host")
    IN  IF host # "" THEN host ELSE client.host

HttpFactoryFailure(bserr) == [code |-> 0, us |-> 0, err |-> bserr]

HttpBegin(w) ==
    /\ client.variant = "std"
    /\ pc[w] = "idle"
    /\ calls < MaxCalls
    /\ calls' = calls + 1
    /\ IF client.body.set
       THEN /\ req' = [req EXCEPT ![w] = [host |-> HttpRequestHost, body |-> client.body,
                                          stream |-> 0,
                                          contentLength |-> Len(client.body.val)]]
            /\ Submit(w)
            /\ UNCHANGED <<res, nStreams, fcalls>>
       ELSE /\ fcalls' = [fcalls EXCEPT ![w] = @ + 1]
            /\ \/ /\ res' = [res EXCEPT ![w] = HttpFactoryFailure("bodyerr")]
                  /\ req' = [req EXCEPT ![w] = [host |-> HttpRequestHost, body |-> NilBody,
                                                stream |-> 0, contentLength |-> 0]]
                  /\ pc' = [pc EXCEPT ![w] = "done"]
                  /\ UNCHANGED <<start, sent, conn, idle, nStreams>>
               \/ /\ nStreams' = nStreams + 1
                  /\ req' = [req EXCEPT ![w] = [host |-> HttpRequestHost, body |-> NilBody,
                                                stream |-> nStreams + 1,
                                                contentLength |-> 0]]
                  /\ Submit(w)
                  /\ UNCHANGED res
    /\ UNCHANGED <<opts, resp, drain, now, hold, bytesRead, bytesWritten, closed, elapsed,
                   wireRead, wireWritten>>

\* ----------------------------------------------------- the transport, II
\* The time a blocking step may take, when it starts at time t.
Delta(t) == IF t < MaxTime THEN {0, 1} ELSE {0}

\* d microseconds pass: for the clock, and for every call in the transport.
Advance(d) ==
    /\ now' = now + d
    /\ elapsed' = [v \in Workers |->
                     IF pc[v] = "inflight" THEN elapsed[v] + d ELSE elapsed[v]]

\* The counting connection of the dialer: an atomic add on the shared counter.
CountingAdd(counter, n) == counter + n

\* nw bytes go out and nr bytes come in on a connection of this client.
Transfer(nw, nr) ==
    /\ wireWritten' = wireWritten + nw
    /\ wireRead' = wireRead + nr
    /\ bytesWritten' = IF client.dial.counting THEN CountingAdd(bytesWritten, nw)
                       ELSE bytesWritten
    /\ bytesRead' = IF client.dial.counting THEN CountingAdd(bytesRead, nr)
                    ELSE bytesRead

StreamOf(w) == IF req[w].stream = 0 THEN {} ELSE {req[w].stream}

\* The bytes a request takes on the wire: its head, and its body.  Requests
\* with the same body have the same size.
WireSize(r) == 1 + Len(r.body.val)

\* The exchange succeeds: the request, its body included, is written and a
\* response with a status comes back.
Exchange(w, status, nw, nr) ==
    /\ Transfer(nw, nr)
    /\ conn' = [conn EXCEPT ![w] = IF conn[w] = "dialing" THEN "fresh" ELSE "reused"]
    /\ resp' = [resp EXCEPT ![w] = [NoResponse EXCEPT !.got = TRUE, !.status = status]]

\* The exchange fails with err: the dial fails (dialed = FALSE), or the
\* connection fails after nw bytes.
Broken(w, err, dialed, nw) ==
    /\ conn[w] = "reused" => dialed
    /\ ~dialed => nw = 0
    /\ Transfer(nw, 0)
    /\ conn' = [conn EXCEPT ![w] =
                  IF ~dialed THEN "none" ELSE IF conn[w] = "dialing" THEN "fresh" ELSE "reused"]
    /\ resp' = [resp EXCEPT ![w] = [NoResponse EXCEPT !.err = err]]

\* ------------------------------------------------ fasthttpClient.do, end
\* Fault injection for FastCode: no sentinel on a transport error.
MutCodeWithoutSentinel(r) == r.status

FastCode(r) == IF r.err # NoErr THEN -1 ELSE r.status

\* uint64(time.Since(start).Nanoseconds() / 1000), read at time t
FastElapsed(w, t) == t - start[w]

\* Fault injection for ReleaseRequest: the body stream is left open.
MutReleaseKeepsStream(w) == closed

\* fasthttp.ReleaseRequest resets the request, which closes its body stream.
ReleaseRequest(w) == closed \cup StreamOf(w)

\* ReleaseRequest, ReleaseResponse
FastRelease(w) ==
    /\ closed' = ReleaseRequest(w)
    /\ hold' = [hold EXCEPT ![w] = FALSE]

\* `code`, `usTaken` and the release, once c.client.Do has returned.
FastReturn(w) ==
    /\ res' = [res EXCEPT ![w] = [code |-> FastCode(resp'[w]), us |-> FastElapsed(w, now'),
                                  err |-> resp'[w].err]]
    /\ FastRelease(w)
    /\ pc' = [pc EXCEPT ![w] = "done"]

\* c.client.Do returns a response.  fasthttp has read the whole response by
\* then, and has put the connection back into its pool unless it is to close.
FastRespond(w) ==
    /\ client.variant = "fast"
    /\ pc[w] = "inflight"
    /\ \E d \in Delta(now), status \in Statuses, nr \in 1..MaxBytes, keep \in BOOLEAN :
          /\ keep => client.keepAlive
          /\ Advance(d)
          /\ Exchange(w, status, WireSize(req[w]), nr)
          /\ idle' = idle + (IF keep THEN 1 ELSE 0)
    /\ FastReturn(w)
    /\ UNCHANGED <<opts, req, drain, start, nStreams, calls, sent, fcalls>>

FastBroken(w, err) ==
    /\ client.variant = "fast"
    /\ pc[w] = "inflight"
    /\ \E d \in Delta(now), dialed \in BOOLEAN, nw \in {0, WireSize(req[w])} :
          /\ Advance(d)
          /\ Broken(w, err, dialed, nw)
    /\ FastReturn(w)
    /\ UNCHANGED <<opts, req, drain, start, idle, nStreams, calls, sent, fcalls>>

\* c.client.Do returns an error: connection refused, TLS failure, ...
FastFail(w) == FastBroken(w, "refused")

\* ReadTimeout / WriteTimeout: a zero duration sets no deadline.
FastTimeout(w) ==
    /\ client.timeout > 0
    /\ FastBroken(w, "timeout")

\* --------------------------------------------------- httpClient.do, end
HttpCode(r) == IF r.err # NoErr THEN -1 ELSE r.status

\* resp.Body.Close() is called whatever io.Copy returned.
HttpCloses(berr) == TRUE

\* Fault injection for HttpErr: the error of Close is dropped.
MutErrIgnoresClose(r, dr) == IF dr.berr # NoErr THEN dr.berr ELSE r.err

\* err is the transport's error; berr, then cerr, overwrite it.
HttpErr(r, dr) ==
    IF dr.cerr # NoErr THEN dr.cerr
    ELSE IF dr.berr # NoErr THEN dr.berr
    ELSE r.err

\* uint64(time.Since(start).Nanoseconds() / 1000), read at time tEnd; the
\* transport had returned at time tDo.
HttpElapsed(w, tDo, tEnd) == tEnd - start[w]

\* c.client.Do returns a response; then its body is drained and closed, and
\* the time is taken.  The transport closes the request's body.  A body read
\* to its end lets the transport keep the connection.
HttpRespond(w) ==
    /\ client.variant = "std"
    /\ pc[w] = "inflight"
    /\ \E d1 \in Delta(now), status \in Statuses, nr \in 1..MaxBytes,
          berr \in {NoErr, "drainerr"}, cerr \in {NoErr, "closeerr"}, keep \in BOOLEAN :
          \E d2 \in Delta(now + d1) :
              /\ keep => berr = NoErr /\ client.keepAlive
              /\ cerr # NoErr => HttpCloses(berr)
              /\ Advance(d1 + d2)
              /\ Exchange(w, status, WireSize(req[w]), nr)
              /\ idle' = idle + (IF keep THEN 1 ELSE 0)
              /\ drain' = [drain EXCEPT ![w] = [drained |-> TRUE, closed |-> HttpCloses(berr),
                                                berr |-> berr, cerr |-> cerr]]
              /\ res' = [res EXCEPT ![w] =
                           [code |-> HttpCode(resp'[w]),
                            us |-> HttpElapsed(w, now + d1, now + d1 + d2),
                            err |-> HttpErr(resp'[w], drain'[w])]]
    /\ closed' = closed \cup StreamOf(w)
    /\ pc' = [pc EXCEPT ![w] = "done"]
    /\ UNCHANGED <<opts, req, start, hold, nStreams, calls, sent, fcalls>>

HttpBroken(w, err) ==
    /\ client.variant = "std"
    /\ pc[w] = "inflight"
    /\ \E d \in Delta(now), dialed \in BOOLEAN, nw \in {0, WireSize(req[w])} :
          /\ Advance(d)
          /\ Broken(w, err, dialed, nw)
          /\ res' = [res EXCEPT ![w] = [code |-> HttpCode(resp'[w]),
                                        us |-> HttpElapsed(w, now + d, now + d),
                                        err |-> HttpErr(resp'[w], drain[w])]]
    /\ closed' = closed \cup StreamOf(w)
    /\ pc' = [pc EXCEPT ![w] = "done"]
    /\ UNCHANGED <<opts, req, drain, start, hold, idle, nStreams, calls, sent, fcalls>>

\* c.client.Do returns an error
HttpFail(w) == HttpBroken(w, "refused")

\* http.Client.Timeout: zero means no timeout.
HttpTimeout(w) ==
    /\ client.timeout > 0
    /\ HttpBroken(w, "timeout")

\* The caller takes the result; the worker is free for its next call.
Return(w) ==
    /\ pc[w] = "done"
    /\ pc' = [pc EXCEPT ![w] = "idle"]
    /\ req' = [req EXCEPT ![w] = NoRequest]
    /\ resp' = [resp EXCEPT ![w] = NoResponse]
    /\ drain' = [drain EXCEPT ![w] = NoDrain]
    /\ res' = [res EXCEPT ![w] = NoResult]
    /\ start' = [start EXCEPT ![w] = 0]
    /\ hold' = [hold EXCEPT ![w] = FALSE]
    /\ conn' = [conn EXCEPT ![w] = "none"]
    /\ elapsed' = [elapsed EXCEPT ![w] = 0]
    /\ sent' = [sent EXCEPT ![w] = FALSE]
    /\ fcalls' = [fcalls EXCEPT ![w] = 0]
    /\ UNCHANGED <<opts, now, idle, bytesRead, bytesWritten, nStreams, closed, calls,
                   wireRead, wireWritten>>

\* ---------------------------------------------------------- specifications
Next ==
    \E w \in Workers :
        \/ FastBegin(w)
        \/ FastRespond(w)
        \/ FastFail(w)
        \/ FastTimeout(w)
        \/ HttpBegin(w)
        \/ HttpRespond(w)
        \/ HttpFail(w)
        \/ HttpTimeout(w)
        \/ Return(w)

\* The call path: both clients, with a fixed body and with a body factory, with
\* and without keep-alives; no proxy, no headers, a timeout.
BaseConfigs ==
    {o \in ClientOpts : o.headers = <<>> /\ o.proxyUrl = <<>> /\ o.timeout > 0}
Init == InitWith(BaseConfigs)
Spec == Init /\ [][Next]_vars

\* Proxies: both clients with every proxy URL of ProxyUrls.
ProxyConfigs ==
    {o \in ClientOpts : /\ o.headers = <<>>
                        /\ o.timeout > 0
                        /\ ~o.disableKeepAlives
                        /\ o.body.set}
InitProxy == InitWith(ProxyConfigs)
SpecProxy == InitProxy /\ [][Next]_vars

\* Headers: both clients with every header list of HeaderLists.
HeaderConfigs ==
    {o \in ClientOpts : /\ o.proxyUrl = <<>>
                        /\ o.timeout > 0
                        /\ ~o.disableKeepAlives
                        /\ o.body.set}
InitHeaders == InitWith(HeaderConfigs)
SpecHeaders == InitHeaders /\ [][Next]_vars

\* Timeouts: both clients with and without a timeout.  The timers of the
\* transport fire when they are set; whether the peer ever answers or fails is
\* up to the peer.
TimeoutConfigs ==
    {o \in ClientOpts : /\ o.headers = <<>>
                        /\ o.proxyUrl = <<>>
                        /\ ~o.disableKeepAlives}
InitTimeouts == InitWith(TimeoutConfigs)
FairSpec ==
    /\ InitTimeouts
    /\ [][Next]_vars
    /\ \A w \in Workers : WF_vars(FastTimeout(w)) /\ WF_vars(HttpTimeout(w))

\* ------------------------------------------------------------- properties
Done(w) == pc[w] = "done"

\* The body factory was invoked and gave no stream.
FactoryFailed(w) == fcalls[w] > 0 /\ req[w].stream = 0

\* C1: (fasthttpClient) once a call has returned, the pooled request/response
\* pair it acquired has been released, whatever path it returned by.
C1_PairReleasedOnReturn == \A w \in Workers : Done(w) => ~hold[w]

\* C2: (both clients) a call whose body factory fails returns (0, 0, that
\* error) at once: nothing was submitted to the transport, no connection was
\* taken or dialed, and the factory is only asked when no fixed body is set.
C2_FactoryFailureReturnsAtOnce ==
    \A w \in Workers :
        FactoryFailed(w) =>
            /\ ~client.body.set
            /\ Done(w)
            /\ res[w] = [code |-> 0, us |-> 0, err |-> "bodyerr"]
            /\ ~sent[w]
            /\ conn[w] = "none"
            /\ resp[w] = NoResponse

C2_Witness ==
    \E w \in Workers : FactoryFailed(w) /\ Done(w) /\ calls = MaxCalls /\ bytesWritten > 0

\* C3: (both clients) for a returned call that was submitted: a transport error
\* gives code -1, that error, and the time that passed since the submission; a
\* response gives its status as the code; so the code is -1 exactly when no
\* response was obtained, and then the error is not nil.
C3_TransportResult ==
    \A w \in Workers :
        Done(w) /\ sent[w] =>
            /\ resp[w].err # NoErr =>
                  res[w].code = -1 /\ res[w].err = resp[w].err /\ res[w].us = elapsed[w]
            /\ resp[w].got => res[w].code = resp[w].status /\ res[w].code \in Statuses
            /\ res[w].code = -1 <=> ~resp[w].got
            /\ res[w].code = -1 => res[w].err # NoErr

C3_Witness ==
    /\ \E w \in Workers : Done(w) /\ sent[w] /\ res[w].code = -1 /\ res[w].us > 0
    /\ \E w \in Workers : Done(w) /\ sent[w] /\ res[w].code = 503 /\ res[w].err = NoErr

\* C4: (httpClient) after a response, the body was drained and closed, close
\* being attempted even when the drain failed; the code is the response's
\* status; the error is nil exactly when both succeeded, and is otherwise the
\* error of one of them; the time covers the drain and the close.
C4_DrainAndClose ==
    \A w \in Workers :
        client.variant = "std" /\ Done(w) /\ resp[w].got =>
            /\ drain[w].drained /\ drain[w].closed
            /\ res[w].code = resp[w].status
            /\ res[w].err = NoErr <=> (drain[w].berr = NoErr /\ drain[w].cerr = NoErr)
            /\ res[w].err \in {NoErr, drain[w].berr, drain[w].cerr}
            /\ drain[w].cerr # NoErr => res[w].err # NoErr
            /\ res[w].us = elapsed[w]

C4_Witness ==
    \E w \in Workers :
        /\ client.variant = "std" /\ Done(w) /\ resp[w].got
        /\ drain[w].berr # NoErr /\ drain[w].closed /\ drain[w].cerr # NoErr
        /\ res[w].code = 503 /\ res[w].us > 0

\* C5: (both clients) with disableKeepAlives no request goes out on a
\* connection that an earlier request used.
C5_NoReuseWhenKeepAlivesDisabled ==
    opts.disableKeepAlives => \A w \in Workers : conn[w] # "reused"

\* The value of the last header of h whose key is "Host" in any letter case;
\* "" when h has none.
RECURSIVE ExplicitHost(_)
ExplicitHost(h) ==
    IF h = <<>> THEN ""
    ELSE IF h[Len(h)].key \in {"Host", "host"} THEN h[Len(h)].value
    ELSE ExplicitHost(SubSeq(h, 1, Len(h) - 1))

\* C6: (both clients) every request that is submitted carries the value of the
\* configured Host header as its host, whatever the letter case of the header's
\* key, and the host of the URL when no Host header is configured.
C6_HostHeaderOverrides ==
    \A w \in Workers :
        sent[w] =>
            req[w].host = IF ExplicitHost(opts.headers) # ""
                          THEN ExplicitHost(opts.headers) ELSE UrlHost

\* The dial path the claim gives a proxy URL.
ClaimedPath(proxyUrl) ==
    IF proxyUrl = <<>> THEN "direct"
    ELSE IF ContainsSocks5(proxyUrl) THEN "socks5"
    ELSE "httpproxy"

\* C7: (both clients) the client is constructed with the direct, counted dial
\* for an empty proxy URL, the SOCKS5 path for a proxy URL that contains
\* "socks5", and the HTTP proxy path for any other; a proxied fasthttpClient
\* dials uncounted, and its counters stay 0.
C7_DialStrategy ==
    /\ client.dial.path = ClaimedPath(opts.proxyUrl)
    /\ opts.proxyUrl = <<>> => client.dial.counting
    /\ opts.variant = "fast" /\ opts.proxyUrl # <<>> =>
          ~client.dial.counting /\ bytesRead = 0 /\ bytesWritten = 0

\* C8: the counters never decrease, and on a client without a proxy each
\* counter is the sum of the bytes that all requests so far moved in its
\* direction: no increment is lost.
C8_CountersMonotonicNoLoss ==
    /\ [][bytesRead' >= bytesRead /\ bytesWritten' >= bytesWritten]_vars
    /\ [](opts.proxyUrl = <<>> => bytesRead = wireRead /\ bytesWritten = wireWritten)

C8_Witness ==
    /\ opts.proxyUrl = <<>>
    /\ opts.variant = "fast"
    /\ calls = MaxCalls
    /\ \A w \in Workers : Done(w) /\ resp[w].got
    /\ bytesRead >= 2
    /\ bytesWritten = 2 * WireSize(req["w1"])

\* C9: every call that was submitted returns.
C9_EveryCallReturns == \A w \in Workers : (pc[w] = "inflight") ~> Done(w)

=============================================================================
